---- MODULE Spec2Model ----
(***************************************************************************)
(* AirQ-SAT backend (src/backend.py): the risk classifier, the aggregator, *)
(* the slug/id generation, the Flask request handlers over the module-wide *)
(* DADOS_DB and CONFIG, and the JSON files they are saved to.              *)
(*                                                                         *)
(* Text is a sequence of one-character strings.  A JSON value of a request *)
(* body is a tagged record (Str, Num, Nulo); a JSON object is a record     *)
(* whose DOMAIN holds the keys that are present.  A request body is what   *)
(* Flask's request.json handed to the handler.  A float is a decimal       *)
(* m / 10^e kept normalised (no trailing zero digit after the point): on   *)
(* the short decimal numerals used here, comparing with the integer        *)
(* thresholds gives the same answer as Python's binary doubles.            *)
(***************************************************************************)
EXTENDS Integers, Sequences, FiniteSets, TLC

VARIABLES DADOS_DB, CONFIG, DADOS_FILE, CONFIG_FILE, agora, req, resp, pc, loc

vars == <<DADOS_DB, CONFIG, DADOS_FILE, CONFIG_FILE, agora, req, resp, pc, loc>>

(* ------------------------------ bounds -------------------------------- *)

\* most regions stored before nova_analise requests stop being issued
MaxRegioes == 2
\* the wall clock runs over the instants 0..MaxTick
MaxTick == 2
\* clock instants per epoch second
TicksPorSegundo == 2
\* longest numeral handed to the classifier in SpecClassifier
MaxLen == 3
\* longest list of readings handed to the aggregator in SpecAgregador
MaxLeituras == 3

(* --------------------------- text and JSON ---------------------------- *)

Str(s) == [t |-> "str", s |-> s]

Num(n) == [t |-> "num", n |-> n]

\* JSON null, None in the handler
Nulo == [t |-> "null"]

\* dict.get(key, default)
Get(data, key, default) == IF key \in DOMAIN data THEN data[key] ELSE default

\* Python truthiness of an optional JSON value ("not x" is its negation)
Truthy(data, key) ==
    /\ key \in DOMAIN data
    /\ CASE data[key].t = "str"  -> data[key].s # <<>>
         [] data[key].t = "num"  -> data[key].n # 0
         [] data[key].t = "null" -> FALSE

DigitChars == <<"0", "1", "2", "3", "4", "5", "6", "7", "8", "9">>

IsDigit(c) == \E i \in 1..10 : DigitChars[i] = c

DigitVal(c) == (CHOOSE i \in 1..10 : DigitChars[i] = c) - 1

IsSpace(c) == c = " "

RECURSIVE Pow10(_)
Pow10(e) == IF e = 0 THEN 1 ELSE 10 * Pow10(e - 1)

RECURSIVE NatOf(_)
\* the number a sequence of digits writes (0 for none)
NatOf(ds) ==
    IF ds = <<>> THEN 0
    ELSE 10 * NatOf(SubSeq(ds, 1, Len(ds) - 1)) + DigitVal(ds[Len(ds)])

RECURSIVE Dec(_)
\* str(n) for n >= 0
Dec(n) == IF n < 10 THEN <<DigitChars[n + 1]>>
          ELSE Dec(n \div 10) \o <<DigitChars[(n % 10) + 1]>>

RECURSIVE LStrip(_)
LStrip(s) == IF s # <<>> /\ IsSpace(s[1]) THEN LStrip(Tail(s)) ELSE s

RECURSIVE RStrip(_)
RStrip(s) == IF s # <<>> /\ IsSpace(s[Len(s)])
             THEN RStrip(SubSeq(s, 1, Len(s) - 1)) ELSE s

\* str.strip()
Strip(s) == RStrip(LStrip(s))

(* ------------------------------ floats -------------------------------- *)

RECURSIVE Normal(_, _)
Normal(m, e) == IF e > 0 /\ m % 10 = 0 THEN Normal(m \div 10, e - 1)
                ELSE [m |-> m, e |-> e]

Return(v) == [ok |-> TRUE, val |-> v]

Raise(x) == [ok |-> FALSE, exc |-> x]

\* float(s) of a str: surrounding blanks stripped, an optional sign, digits
\* with at most one point and at least one digit; anything else over the
\* model's characters is a ValueError.
FloatOfText(s) ==
    LET t      == Strip(s)
        signed == t # <<>> /\ t[1] \in {"-", "+"}
        body   == IF signed THEN Tail(t) ELSE t
        points == {i \in 1..Len(body) : body[i] = "."}
        digits == SelectSeq(body, IsDigit)
        valid  == /\ digits # <<>>
                  /\ Cardinality(points) <= 1
                  /\ \A i \in 1..Len(body) : IsDigit(body[i]) \/ body[i] = "."
        e      == IF points = {} THEN 0
                  ELSE Len(body) - (CHOOSE i \in points : TRUE)
        mag    == NatOf(digits)
        m      == IF signed /\ t[1] = "-" THEN 0 - mag ELSE mag
    IN  IF valid THEN Return(Normal(m, e)) ELSE Raise("ValueError")

\* float(x) of a JSON value
float(x) == CASE x.t = "num"  -> Return(Normal(x.n, 0))
              [] x.t = "str"  -> FloatOfText(x.s)
              [] x.t = "null" -> Raise("TypeError")

\* f < k for a float f and an integer k
Less(f, k) == f.m < k * Pow10(f.e)

(* ------------------------- the risk classifier ------------------------ *)

NO2 == <<"N", "O", "₂">>

niveis_ordem == <<"Bom", "Moderado", "Ruim", "Muito Ruim", "Péssimo">>

Niveis == {niveis_ordem[i] : i \in 1..Len(niveis_ordem)}

\* niveis_ordem.index(n)
index(n) == CHOOSE i \in 1..Len(niveis_ordem) : niveis_ordem[i] = n

mapeamento_risco(n) ==
    CASE n = "Bom"        -> 50
      [] n = "Moderado"   -> 100
      [] n = "Ruim"       -> 150
      [] n = "Muito Ruim" -> 200
      [] n = "Péssimo"    -> 300
      [] OTHER            -> 50

\* f <= k for a float f and an integer k
LessEq(f, k) == f.m <= k * Pow10(f.e)

\* the classifier with the thresholds compared with <= instead of <
determinar_risco_poluente_limiar(nome, valor) ==
    LET f == float(valor)
    IN  IF ~f.ok THEN f
        ELSE IF nome = NO2
             THEN IF LessEq(f.val, 10) THEN Return("Bom")
                  ELSE IF LessEq(f.val, 40) THEN Return("Moderado")
                  ELSE IF LessEq(f.val, 100) THEN Return("Ruim")
                  ELSE Return("Muito Ruim")
             ELSE Return("Bom")

determinar_risco_poluente(nome, valor) ==
    LET f == float(valor)
    IN  IF ~f.ok THEN f
        ELSE IF nome = NO2
             THEN IF Less(f.val, 10) THEN Return("Bom")
                  ELSE IF Less(f.val, 40) THEN Return("Moderado")
                  ELSE IF Less(f.val, 100) THEN Return("Ruim")
                  ELSE Return("Muito Ruim")
             ELSE Return("Bom")

(* ---------------------------- the aggregator -------------------------- *)

RECURSIVE pior_nivel(_, _)
\* the loop of get_nivel_risco_e_aqi, from the running worst level
pior_nivel(poluentes, pior) ==
    IF poluentes = <<>> THEN pior
    ELSE pior_nivel(Tail(poluentes),
                    IF index(Head(poluentes).nivel_risco) > index(pior)
                    THEN Head(poluentes).nivel_risco ELSE pior)

\* the aggregator keeping the last reading's level instead of the worst
get_nivel_risco_e_aqi_ultimo(poluentes) ==
    LET pior == IF poluentes = <<>> THEN "Bom"
                ELSE poluentes[Len(poluentes)].nivel_risco
    IN  <<pior, mapeamento_risco(pior)>>

get_nivel_risco_e_aqi(poluentes) ==
    LET pior == pior_nivel(poluentes, "Bom")
    IN  <<pior, mapeamento_risco(pior)>>

(* ------------------------------- slugify ------------------------------ *)

\* unicodedata.normalize('NFKD', c).encode('ascii', 'ignore'): an accented
\* letter leaves its base letter, a character with no ASCII decomposition
\* leaves nothing, an ASCII character stays.
Ascii(c) == CASE c = "é" -> <<"e">>
              [] c = "ã" -> <<"a">>
              [] c = "₂" -> <<"2">>
              [] c = "ø" -> <<>>
              [] OTHER   -> <<c>>

RECURSIVE AsciiFold(_)
AsciiFold(s) == IF s = <<>> THEN <<>> ELSE Ascii(Head(s)) \o AsciiFold(Tail(s))

Upper == <<"A", "B", "C", "N", "O", "R", "S">>

Lower == <<"a", "b", "c", "n", "o", "r", "s">>

IsUpper(c) == \E i \in 1..Len(Upper) : Upper[i] = c

\* str.lower() on one character
ToLower(c) == IF IsUpper(c)
              THEN Lower[CHOOSE i \in 1..Len(Upper) : Upper[i] = c] ELSE c

\* \w of the regular expressions, over ASCII text
IsWord(c) == \/ IsDigit(c)
             \/ IsUpper(c)
             \/ c \in {"a", "b", "c", "e", "n", "o", "r", "s", "x", "_"}

\* [^\w\s-] is removed
Kept(c) == IsWord(c) \/ IsSpace(c) \/ c = "-"

RECURSIVE Collapse(_)
\* re.sub(r'[-\s]+', '-', s)
Collapse(s) ==
    IF s = <<>> THEN <<>>
    ELSE IF Head(s) = "-" \/ IsSpace(Head(s))
         THEN IF Tail(s) # <<>> /\ (Tail(s)[1] = "-" \/ IsSpace(Tail(s)[1]))
              THEN Collapse(Tail(s))
              ELSE <<"-">> \o Collapse(Tail(s))
         ELSE <<Head(s)>> \o Collapse(Tail(s))

slugify(value) ==
    LET v1 == AsciiFold(value)
        v2 == Strip(SelectSeq(v1, Kept))
        v3 == [i \in 1..Len(v2) |-> ToLower(v2[i])]
    IN  Collapse(v3)

(* --------------------------- the JSON files --------------------------- *)

\* json.dump(data, f): the text cut into tokens, one per brace, key and
\* entry, in the order the encoder emits them (lists in list order, dicts
\* in insertion order).
json_dump(data) ==
    IF "regioes" \in DOMAIN data
    THEN <<[tok |-> "{"], [tok |-> "regioes"]>>
         \o [i \in 1..Len(data.regioes) |->
                [tok |-> "regiao", regiao |-> data.regioes[i]]]
         \o <<[tok |-> "dados_qualidade_ar"]>>
         \o [i \in 1..Len(data.dados_qualidade_ar) |->
                [tok |-> "dado", chave |-> data.dados_qualidade_ar[i].chave,
                 entrada |-> data.dados_qualidade_ar[i].entrada]]
         \o <<[tok |-> "}"]>>
    ELSE <<[tok |-> "{"],
           [tok |-> "openeo_url", texto |-> data.openeo_url],
           [tok |-> "client_id", texto |-> data.client_id],
           [tok |-> "client_secret", texto |-> data.client_secret],
           [tok |-> "}"]>>

\* a close that loses the buffer instead of writing it
FlushPerdido(conteudo, buf) == conteudo

\* a buffered write of buf at offset 0 over what the file holds
Flush(conteudo, buf) ==
    buf \o SubSeq(conteudo, Len(buf) + 1, Len(conteudo))

\* open(filepath, 'w') truncates; the dump is flushed when the file closes
salvar_json(data) == Flush(<<>>, json_dump(data))

(* ----------------------------- the database --------------------------- *)

\* DADOS_DB["dados_qualidade_ar"] is an insertion-ordered dict: a sequence
\* of [chave, entrada] with distinct keys.
Chaves(dados) == {dados[i].chave : i \in 1..Len(dados)}

\* dict.get(chave): the entry stored under chave (a set of at most one)
Busca(dados, chave) ==
    {dados[i].entrada : i \in {j \in 1..Len(dados) : dados[j].chave = chave}}

\* dados[chave] = entrada
Insere(dados, chave, entrada) ==
    IF chave \in Chaves(dados)
    THEN [i \in 1..Len(dados) |->
             IF dados[i].chave = chave
             THEN [chave |-> chave, entrada |-> entrada] ELSE dados[i]]
    ELSE Append(dados, [chave |-> chave, entrada |-> entrada])

\* the append left out
AcrescentaRegiaoOmitida(regioes, regiao_id, nome_regiao) == regioes

\* DADOS_DB["regioes"].append({"id": ..., "nome": ...})
AcrescentaRegiao(regioes, regiao_id, nome_regiao) ==
    Append(regioes, [id |-> regiao_id, nome |-> nome_regiao])

DadosPadrao == [regioes |-> <<>>, dados_qualidade_ar |-> <<>>]

ConfigPadrao == [openeo_url |-> Str(<<>>), client_id |-> Str(<<>>),
                 client_secret |-> Str(<<>>)]

(* ------------------------------ the clock ----------------------------- *)

\* int(datetime.now().timestamp()) and int(time.time())
Segundos(t) == t \div TicksPorSegundo

\* datetime.now().isoformat() + "Z"
IsoZ(t) == [isoformat |-> t, sufixo |-> "Z"]

(* ------------------------------ requests ------------------------------ *)

Se == <<"S", "é">>

se == <<"s", "e">>

Nor == <<"N", "o", "r", " ", "!">>

S5P == <<"S", "5", "P">>

\* request bodies of POST /api/nova_analise: without nome_regiao, with an
\* empty one, with every form of no2 (absent, numerals, a JSON number, a
\* text that is no number, null), with and without satelite
CorposAnalise ==
    { <<>>,
      [nome_regiao |-> Str(<<>>), no2 |-> Str(<<"x">>)],
      [nome_regiao |-> Str(Se), no2 |-> Str(<<"x">>)],
      [nome_regiao |-> Str(Nor), no2 |-> Nulo],
      [nome_regiao |-> Str(Se)],
      [nome_regiao |-> Str(Se), no2 |-> Str(<<"5">>)],
      [nome_regiao |-> Str(se), no2 |-> Str(<<"5", "0">>),
       satelite |-> Str(S5P)],
      [nome_regiao |-> Str(Nor), no2 |-> Num(100)] }

\* the two of them the configuration server is driven with
CorposAnaliseMin ==
    { <<>>, [nome_regiao |-> Str(Se), no2 |-> Str(<<"5">>)] }

ValoresConfig == {Str(<<>>), Str(<<"a">>), Str(<<"b">>)}

CamposConfig == {"openeo_url", "client_id", "client_secret"}

\* request bodies of POST /api/config: every subset of the three fields set
\* to "a", and the full bodies over "", "a", "b" that differ from the full
\* "a" body in one field
CorposConfig ==
    { [k \in ks |-> Str(<<"a">>)] : ks \in SUBSET CamposConfig }
    \cup { [openeo_url |-> u, client_id |-> Str(<<"a">>),
            client_secret |-> Str(<<"a">>)] : u \in ValoresConfig }
    \cup { [openeo_url |-> Str(<<"a">>), client_id |-> Str(<<"a">>),
            client_secret |-> c] : c \in ValoresConfig }

\* the two of them the analysis server is driven with
CorposConfigMin ==
    { [k \in CamposConfig |-> Str(<<"a">>)],
      [openeo_url |-> Str(<<"a">>), client_id |-> Str(<<"a">>)] }

Objeto(campos) == [t |-> "obj", campos |-> campos]

\* request bodies of POST /api/automated_analysis: objects with and without
\* nome_regiao, and a body that is no object (null)
CorposAutomatica ==
    { Objeto(<<>>), Objeto([nome_regiao |-> Str(Se)]), Nulo }

\* query strings of GET /api/qualidade_ar, given the regions stored
Consultas(regioes) ==
    { <<>>, [regiao_id |-> <<>>], [regiao_id |-> <<"x">>] }
    \cup { [regiao_id |-> regioes[i].id] : i \in 1..Len(regioes) }

Resposta(status, body) == [status |-> status, body |-> body]

\* an exception no handler catches: Flask answers 500
Excecao(exc) == [status |-> 500, body |-> [excecao |-> exc]]

(* ------------------------------ handlers ------------------------------ *)

\* the POST branch keeping the previous value of a field the body omits
config_atualizada_mescla(data) ==
    [openeo_url    |-> Get(data, "openeo_url", CONFIG.openeo_url),
     client_id     |-> Get(data, "client_id", CONFIG.client_id),
     client_secret |-> Get(data, "client_secret", CONFIG.client_secret)]

\* CONFIG after the three assignments of the POST branch
config_atualizada(data) ==
    [openeo_url    |-> Get(data, "openeo_url", Str(<<>>)),
     client_id     |-> Get(data, "client_id", Str(<<>>)),
     client_secret |-> Get(data, "client_secret", Str(<<>>))]

handle_config_POST(data) ==
    /\ CONFIG' = config_atualizada(data)
    /\ CONFIG_FILE' = salvar_json(CONFIG')
    /\ req' = [op |-> "config_POST", data |-> data]
    /\ resp' = Resposta(200, [status |-> "sucesso",
                              mensagem |-> "Configurações salvas."])
    /\ UNCHANGED <<DADOS_DB, DADOS_FILE, agora, pc, loc>>

handle_config_GET ==
    /\ req' = [op |-> "config_GET"]
    /\ resp' = Resposta(200, CONFIG)
    /\ UNCHANGED <<DADOS_DB, CONFIG, DADOS_FILE, CONFIG_FILE, agora, pc, loc>>

get_regioes ==
    /\ req' = [op |-> "regioes"]
    /\ resp' = Resposta(200, [regioes |-> DADOS_DB.regioes])
    /\ UNCHANGED <<DADOS_DB, CONFIG, DADOS_FILE, CONFIG_FILE, agora, pc, loc>>

\* the response of get_qualidade_ar to the query string args
resposta_qualidade_ar(db, args) ==
    IF ~("regiao_id" \in DOMAIN args /\ args.regiao_id # <<>>)
    THEN Resposta(400, [erro |-> "Parâmetro 'regiao_id' obrigatório."])
    ELSE LET dados_regiao == Busca(db.dados_qualidade_ar, args.regiao_id)
         IN  IF dados_regiao = {}
             THEN Resposta(404, [erro |-> "não encontrados",
                                 regiao_id |-> args.regiao_id])
             ELSE Resposta(200, CHOOSE d \in dados_regiao : TRUE)

get_qualidade_ar(args) ==
    /\ req' = [op |-> "qualidade_ar", args |-> args]
    /\ resp' = resposta_qualidade_ar(DADOS_DB, args)
    /\ UNCHANGED <<DADOS_DB, CONFIG, DADOS_FILE, CONFIG_FILE, agora, pc, loc>>

\* regiao_id of a request for nome_regiao at instant t
gera_regiao_id(nome_regiao, t) ==
    slugify(nome_regiao \o <<"-">> \o Dec(Segundos(t)))

\* the poluentes list of a request body: the float conversion and the
\* classification, either of which may raise
monta_poluentes(data) ==
    LET no2   == Get(data, "no2", Num(0))
        valor == float(no2)
        nivel == determinar_risco_poluente(NO2, no2)
    IN  IF ~valor.ok THEN valor
        ELSE IF ~nivel.ok THEN nivel
        ELSE Return(<<[nome        |-> "Dióxido de Nitrogênio",
                       formula     |-> NO2,
                       valor       |-> valor.val,
                       unidade     |-> "μmol/m²",
                       nivel_risco |-> nivel.val]>>)

\* nova_entrada with the AQI of the best level whatever the readings
monta_entrada_aqi_fixo(data, poluentes, t) ==
    LET geral == get_nivel_risco_e_aqi(poluentes)
    IN  [nome_regiao        |-> data.nome_regiao.s,
         ultima_atualizacao |-> IsoZ(t),
         satelite           |-> Get(data, "satelite",
                                    Str(<<"M", "a", "n", "u", "a", "l">>)).s,
         aqi_geral          |-> mapeamento_risco("Bom"),
         nivel_risco        |-> geral[1],
         poluentes          |-> poluentes]

\* nova_entrada for a request body, its poluentes and the instant t
monta_entrada(data, poluentes, t) ==
    LET geral == get_nivel_risco_e_aqi(poluentes)
    IN  [nome_regiao        |-> data.nome_regiao.s,
         ultima_atualizacao |-> IsoZ(t),
         satelite           |-> Get(data, "satelite",
                                    Str(<<"M", "a", "n", "u", "a", "l">>)).s,
         aqi_geral          |-> geral[2],
         nivel_risco        |-> geral[1],
         poluentes          |-> poluentes]

\* DADOS_DB after the append and the insert of nova_analise_manual
grava_analise(db, regiao_id, nome_regiao, nova_entrada) ==
    [regioes |-> AcrescentaRegiao(db.regioes, regiao_id, nome_regiao),
     dados_qualidade_ar |->
         Insere(db.dados_qualidade_ar, regiao_id, nova_entrada)]

\* nova_analise_manual appending the region before the pollutants are
\* converted, so that a failed conversion leaves the region behind
nova_analise_manual_grava_antes(data) ==
    /\ req' = [op |-> "nova_analise", data |-> data]
    /\ IF ~Truthy(data, "nome_regiao")
       THEN /\ resp' = Resposta(400, [erro |-> "Nome da região é obrigatório."])
            /\ UNCHANGED <<DADOS_DB, DADOS_FILE>>
       ELSE LET nome_regiao == data.nome_regiao.s
                regiao_id   == gera_regiao_id(nome_regiao, agora)
                poluentes   == monta_poluentes(data)
            IN  /\ Len(DADOS_DB.regioes) < MaxRegioes
                /\ IF ~poluentes.ok
                   THEN /\ resp' = Excecao(poluentes.exc)
                        /\ DADOS_DB' = [DADOS_DB EXCEPT !.regioes =
                               AcrescentaRegiao(@, regiao_id, nome_regiao)]
                        /\ UNCHANGED DADOS_FILE
                   ELSE /\ DADOS_DB' = grava_analise(DADOS_DB, regiao_id,
                               nome_regiao,
                               monta_entrada(data, poluentes.val, agora))
                        /\ DADOS_FILE' = salvar_json(DADOS_DB')
                        /\ resp' = Resposta(201,
                                      [status |-> "sucesso",
                                       mensagem |-> "Análise salva.",
                                       nova_regiao |-> [id |-> regiao_id,
                                                        nome |-> nome_regiao]])
    /\ UNCHANGED <<CONFIG, CONFIG_FILE, agora, pc, loc>>

nova_analise_manual(data) ==
    /\ req' = [op |-> "nova_analise", data |-> data]
    /\ IF ~Truthy(data, "nome_regiao")
       THEN /\ resp' = Resposta(400, [erro |-> "Nome da região é obrigatório."])
            /\ UNCHANGED <<DADOS_DB, DADOS_FILE>>
       ELSE LET nome_regiao == data.nome_regiao.s
                regiao_id   == gera_regiao_id(nome_regiao, agora)
                poluentes   == monta_poluentes(data)
            IN  IF ~poluentes.ok
                THEN /\ resp' = Excecao(poluentes.exc)
                     /\ UNCHANGED <<DADOS_DB, DADOS_FILE>>
                ELSE /\ Len(DADOS_DB.regioes) < MaxRegioes
                     /\ DADOS_DB' = grava_analise(DADOS_DB, regiao_id, nome_regiao,
                                        monta_entrada(data, poluentes.val, agora))
                     /\ DADOS_FILE' = salvar_json(DADOS_DB')
                     /\ resp' = Resposta(201,
                                   [status |-> "sucesso",
                                    mensagem |-> "Análise salva.",
                                    nova_regiao |-> [id |-> regiao_id,
                                                     nome |-> nome_regiao]])
    /\ UNCHANGED <<CONFIG, CONFIG_FILE, agora, pc, loc>>

\* the check looking at two of the three fields only
config_completa_sem_segredo(config) ==
    /\ Truthy(config, "openeo_url")
    /\ Truthy(config, "client_id")

\* all([CONFIG.get('openeo_url'), CONFIG.get('client_id'),
\*      CONFIG.get('client_secret')])
config_completa(config) ==
    /\ Truthy(config, "openeo_url")
    /\ Truthy(config, "client_id")
    /\ Truthy(config, "client_secret")

\* the response of automated_analysis to the body params at instant t
resposta_automatica(config, params, t) ==
    IF ~config_completa(config)
    THEN Resposta(400, [erro |-> "As credenciais do Copernicus não estão configuradas."])
    ELSE IF params.t = "obj" /\ "nome_regiao" \in DOMAIN params.campos
         THEN Resposta(202, [status |-> "sucesso",
                             nome_regiao |-> params.campos.nome_regiao,
                             job_id |-> <<"j", "o", "b", "_">> \o Dec(Segundos(t))])
         ELSE Resposta(500, [erro |-> "Falha ao iniciar a tarefa de análise automática",
                             excecao |-> IF params.t = "obj" THEN "KeyError"
                                         ELSE "TypeError"])

automated_analysis(params) ==
    /\ req' = [op |-> "automated_analysis", params |-> params]
    /\ resp' = resposta_automatica(CONFIG, params, agora)
    /\ UNCHANGED <<DADOS_DB, CONFIG, DADOS_FILE, CONFIG_FILE, agora, pc, loc>>

\* the wall clock advances
Tick ==
    /\ agora < MaxTick
    /\ agora' = agora + 1
    /\ UNCHANGED <<DADOS_DB, CONFIG, DADOS_FILE, CONFIG_FILE, req, resp, pc, loc>>

(* ----------------- the server, one request at a time ------------------ *)

Threads == {1, 2}

Nenhum == [op |-> "nenhum"]

SemResposta == [status |-> 0, body |-> [vazio |-> TRUE]]

Init ==
    /\ DADOS_DB = DadosPadrao
    /\ CONFIG = ConfigPadrao
    /\ DADOS_FILE = <<>>
    /\ CONFIG_FILE = <<>>
    /\ agora = 0
    /\ req = Nenhum
    /\ resp = SemResposta
    /\ pc = [t \in Threads |-> "parado"]
    /\ loc = [t \in Threads |-> Nenhum]

\* the requests the server may receive next, over the given bodies
Servidor(corposAnalise, corposConfig) ==
    \/ \E data \in corposConfig : handle_config_POST(data)
    \/ handle_config_GET
    \/ get_regioes
    \/ \E args \in Consultas(DADOS_DB.regioes) : get_qualidade_ar(args)
    \/ \E data \in corposAnalise : nova_analise_manual(data)
    \/ \E params \in CorposAutomatica : automated_analysis(params)
    \/ Tick

Next == Servidor(CorposAnalise, CorposConfigMin)

Spec == Init /\ [][Next]_vars

NextConfig == Servidor(CorposAnaliseMin, CorposConfig)

SpecConfig == Init /\ [][NextConfig]_vars

(* ------------------- the classifier, called directly ------------------ *)

RECURSIVE Textos(_, _)
\* the texts of at most n characters over the alphabet
Textos(alfabeto, n) ==
    IF n = 0 THEN {<<>>}
    ELSE LET menores == Textos(alfabeto, n - 1)
         IN  menores \cup {Append(s, c) : s \in menores, c \in alfabeto}

\* the characters of the values handed to the classifier
AlfabetoValor == {"0", "1", "3", "4", "9", ".", "-", "x"}

\* values handed to the classifier: texts and JSON numbers around the
\* three thresholds
ValoresPoluente ==
    {Str(s) : s \in Textos(AlfabetoValor, MaxLen)}
    \cup {Num(n) : n \in {0 - 1, 0, 9, 10, 11, 39, 40, 41, 99, 100, 101}}

\* pollutant codes handed to the classifier
NomesPoluente == {NO2, <<"N", "O", "2">>, <<"C", "O">>}

Retorno(r) == [status |-> 0, body |-> [ret |-> r]]

InitClassificador ==
    /\ req \in {[op |-> "determinar_risco_poluente", nome |-> n, valor |-> v] :
                   n \in NomesPoluente, v \in ValoresPoluente}
    /\ resp = SemResposta
    /\ DADOS_DB = DadosPadrao
    /\ CONFIG = ConfigPadrao
    /\ DADOS_FILE = <<>>
    /\ CONFIG_FILE = <<>>
    /\ agora = 0
    /\ pc = [t \in Threads |-> "parado"]
    /\ loc = [t \in Threads |-> Nenhum]

ChamaClassificador ==
    /\ req.op = "determinar_risco_poluente"
    /\ resp = SemResposta
    /\ resp' = Retorno(determinar_risco_poluente(req.nome, req.valor))
    /\ UNCHANGED <<DADOS_DB, CONFIG, DADOS_FILE, CONFIG_FILE, agora, req, pc, loc>>

SpecClassificador == InitClassificador /\ [][ChamaClassificador]_vars

(* ------------------- the aggregator, called directly ------------------ *)

RECURSIVE Listas(_, _)
\* the lists of at most n elements of the set
Listas(S, n) ==
    IF n = 0 THEN {<<>>}
    ELSE LET menores == Listas(S, n - 1)
         IN  menores \cup {Append(l, x) : l \in menores, x \in S}

\* readings of every level (Péssimo included: the aggregator orders it)
Leituras == {[formula |-> NO2, nivel_risco |-> n] : n \in Niveis}

InitAgregador ==
    /\ req \in {[op |-> "get_nivel_risco_e_aqi", poluentes |-> l] :
                   l \in Listas(Leituras, MaxLeituras)}
    /\ resp = SemResposta
    /\ DADOS_DB = DadosPadrao
    /\ CONFIG = ConfigPadrao
    /\ DADOS_FILE = <<>>
    /\ CONFIG_FILE = <<>>
    /\ agora = 0
    /\ pc = [t \in Threads |-> "parado"]
    /\ loc = [t \in Threads |-> Nenhum]

ChamaAgregador ==
    /\ req.op = "get_nivel_risco_e_aqi"
    /\ resp = SemResposta
    /\ resp' = Retorno(get_nivel_risco_e_aqi(req.poluentes))
    /\ UNCHANGED <<DADOS_DB, CONFIG, DADOS_FILE, CONFIG_FILE, agora, req, pc, loc>>

SpecAgregador == InitAgregador /\ [][ChamaAgregador]_vars

(* ---------------- two overlapping nova_analise requests --------------- *)
(* Each thread of the server runs nova_analise_manual statement by        *)
(* statement on the shared DADOS_DB and the shared file, with no lock.    *)
(* json.dump walks the live objects: the regioes list (a walk of a list   *)
(* that only grows at its end equals a copy taken at one instant), then   *)
(* the dados_qualidade_ar dict item by item, where the dict iterator      *)
(* raises RuntimeError once the dict's size differs from the size it had  *)
(* when the walk began.  What is written stays in the file object's       *)
(* buffer (the document is far smaller than the buffer) until the with    *)
(* block closes the file, on the normal path and on the exception path.   *)

\* request bodies of the two overlapping requests
CorposConcorrentes ==
    { [nome_regiao |-> Str(Se), no2 |-> Str(<<"5">>)],
      [nome_regiao |-> Str(Nor), no2 |-> Num(100)] }

\* lines 114-135: the request is read and validated, regiao_id and
\* nova_entrada are computed
inicia(t, data) ==
    /\ pc[t] = "parado"
    /\ Truthy(data, "nome_regiao")
    /\ monta_poluentes(data).ok
    /\ loc' = [loc EXCEPT ![t] =
                 [op           |-> "nova_analise",
                  regiao_id    |-> gera_regiao_id(data.nome_regiao.s, agora),
                  nome_regiao  |-> data.nome_regiao.s,
                  nova_entrada |-> monta_entrada(data, monta_poluentes(data).val,
                                                 agora),
                  buf          |-> <<>>,
                  tamanho      |-> 0,
                  i            |-> 0,
                  status       |-> 201]]
    /\ pc' = [pc EXCEPT ![t] = "append"]
    /\ UNCHANGED <<DADOS_DB, CONFIG, DADOS_FILE, CONFIG_FILE, agora, req, resp>>

\* line 137
acrescenta(t) ==
    /\ pc[t] = "append"
    /\ DADOS_DB' = [DADOS_DB EXCEPT !.regioes =
                      AcrescentaRegiao(@, loc[t].regiao_id, loc[t].nome_regiao)]
    /\ pc' = [pc EXCEPT ![t] = "insert"]
    /\ UNCHANGED <<CONFIG, DADOS_FILE, CONFIG_FILE, agora, req, resp, loc>>

\* line 138
insere(t) ==
    /\ pc[t] = "insert"
    /\ DADOS_DB' = [DADOS_DB EXCEPT !.dados_qualidade_ar =
                      Insere(@, loc[t].regiao_id, loc[t].nova_entrada)]
    /\ pc' = [pc EXCEPT ![t] = "open"]
    /\ UNCHANGED <<CONFIG, DADOS_FILE, CONFIG_FILE, agora, req, resp, loc>>

\* line 38: open(filepath, 'w') truncates the file
abre(t) ==
    /\ pc[t] = "open"
    /\ DADOS_FILE' = <<>>
    /\ loc' = [loc EXCEPT ![t].buf = <<>>]
    /\ pc' = [pc EXCEPT ![t] = "dump_regioes"]
    /\ UNCHANGED <<DADOS_DB, CONFIG, CONFIG_FILE, agora, req, resp>>

\* line 39: the encoder writes the regioes list
despeja_regioes(t) ==
    /\ pc[t] = "dump_regioes"
    /\ loc' = [loc EXCEPT ![t].buf =
                 <<[tok |-> "{"], [tok |-> "regioes"]>>
                 \o [i \in 1..Len(DADOS_DB.regioes) |->
                        [tok |-> "regiao", regiao |-> DADOS_DB.regioes[i]]]
                 \o <<[tok |-> "dados_qualidade_ar"]>>]
    /\ pc' = [pc EXCEPT ![t] = "dump_dados"]
    /\ UNCHANGED <<DADOS_DB, CONFIG, DADOS_FILE, CONFIG_FILE, agora, req, resp>>

\* line 39: the walk of the dict begins; the iterator keeps the dict's size
comeca_dados(t) ==
    /\ pc[t] = "dump_dados"
    /\ loc' = [loc EXCEPT ![t].tamanho = Len(DADOS_DB.dados_qualidade_ar),
                          ![t].i = 0]
    /\ pc' = [pc EXCEPT ![t] = "dump_item"]
    /\ UNCHANGED <<DADOS_DB, CONFIG, DADOS_FILE, CONFIG_FILE, agora, req, resp>>

\* line 39: the next item of the walk: RuntimeError when the dict changed
\* size (an empty dict is written without a walk), the closing brace after
\* the last item, else the item is written
despeja_item(t) ==
    /\ pc[t] = "dump_item"
    /\ LET dados == DADOS_DB.dados_qualidade_ar
       IN  IF loc[t].tamanho # 0 /\ Len(dados) # loc[t].tamanho
           THEN loc' = [loc EXCEPT ![t].status = 500]
                /\ pc' = [pc EXCEPT ![t] = "close"]
           ELSE IF loc[t].i = loc[t].tamanho
           THEN loc' = [loc EXCEPT ![t].buf = @ \o <<[tok |-> "}"]>>]
                /\ pc' = [pc EXCEPT ![t] = "close"]
           ELSE loc' = [loc EXCEPT
                          ![t].buf = Append(@,
                              [tok |-> "dado",
                               chave |-> dados[loc[t].i + 1].chave,
                               entrada |-> dados[loc[t].i + 1].entrada]),
                          ![t].i = @ + 1]
                /\ pc' = pc
    /\ UNCHANGED <<DADOS_DB, CONFIG, DADOS_FILE, CONFIG_FILE, agora, req, resp>>

\* lines 38-39: leaving the with block closes the file, which flushes the
\* buffer at the start of the file; then the response is sent (line 141, or
\* the 500 of the propagated RuntimeError)
fecha(t) ==
    /\ pc[t] = "close"
    /\ DADOS_FILE' = Flush(DADOS_FILE, loc[t].buf)
    /\ pc' = [pc EXCEPT ![t] = "fim"]
    /\ UNCHANGED <<DADOS_DB, CONFIG, CONFIG_FILE, agora, req, resp, loc>>

NextConcorrente ==
    \/ \E t \in Threads, data \in CorposConcorrentes : inicia(t, data)
    \/ \E t \in Threads : acrescenta(t)
    \/ \E t \in Threads : insere(t)
    \/ \E t \in Threads : abre(t)
    \/ \E t \in Threads : despeja_regioes(t)
    \/ \E t \in Threads : comeca_dados(t)
    \/ \E t \in Threads : despeja_item(t)
    \/ \E t \in Threads : fecha(t)
    \/ Tick

SpecConcorrente == Init /\ [][NextConcorrente]_vars

(* ------------------------------- claims ------------------------------- *)

\* the level the classification rule gives the float f for NO₂: one step up
\* the order for each threshold f has reached
NivelEsperado(f) ==
    niveis_ordem[1 + Cardinality({k \in {10, 40, 100} : k * Pow10(f.e) <= f.m})]

\* the fixed AQI of the i-th level of the order
AqiFixo(i) == <<50, 100, 150, 200, 300>>[i]

\* the position in the order of the most severe level among the readings
\* (that of Bom when there is none)
PiorPosicao(l) ==
    LET pos == {index(l[i].nivel_risco) : i \in 1..Len(l)} \cup {1}
    IN  CHOOSE m \in pos : \A x \in pos : x <= m

Regioes == DADOS_DB.regioes

Dados == DADOS_DB.dados_qualidade_ar

\* C1: every key of DADOS_DB['dados_qualidade_ar'] is the id of some entry
\* of DADOS_DB['regioes'], after any sequence of requests from the empty
\* default database.
C1_ChavesTemRegiao ==
    \A k \in Chaves(Dados) : \E i \in 1..Len(Regioes) : Regioes[i].id = k

\* two records are stored and other requests have been served since
C1_Witness ==
    /\ Cardinality(Chaves(Dados)) = 2
    /\ req.op = "automated_analysis"
    /\ CONFIG # ConfigPadrao

\* C2: any two successful nova_analise requests get different region ids,
\* so DADOS_DB['regioes'] never holds two entries with the same id.
C2_IdsDistintos ==
    \A i, j \in 1..Len(Regioes) : i # j => Regioes[i].id # Regioes[j].id

\* C3: for NO₂ the classifier returns Bom below 10, Moderado from 10 and
\* below 40, Ruim from 40 and below 100, Muito Ruim from 100 (each boundary
\* in the higher level); for any other pollutant code it returns Bom; it
\* never returns Péssimo.
C3_Classificacao ==
    (req.op = "determinar_risco_poluente" /\ resp # SemResposta
       /\ float(req.valor).ok) =>
        /\ resp.body.ret.ok
        /\ resp.body.ret.val # "Péssimo"
        /\ resp.body.ret.val = IF req.nome = NO2
                               THEN NivelEsperado(float(req.valor).val)
                               ELSE "Bom"

\* the classifier has answered Ruim for NO₂ at the boundary value 40
C3_Witness ==
    /\ req.op = "determinar_risco_poluente"
    /\ req.nome = NO2
    /\ req.valor = Str(<<"4", "0">>)
    /\ resp # SemResposta
    /\ resp.body.ret = Return("Ruim")

\* C4: the aggregator returns the most severe level among the readings
\* under Bom < Moderado < Ruim < Muito Ruim < Péssimo (Bom for no reading)
\* with the AQI fixed by that level (50, 100, 150, 200, 300).
C4_Agregacao ==
    (req.op = "get_nivel_risco_e_aqi" /\ resp # SemResposta) =>
        LET pior == PiorPosicao(req.poluentes)
        IN  resp.body.ret = <<niveis_ordem[pior], AqiFixo(pior)>>

\* the aggregator has answered for three readings whose worst is neither
\* the first nor the last
C4_Witness ==
    /\ req.op = "get_nivel_risco_e_aqi"
    /\ Len(req.poluentes) = 3
    /\ req.poluentes[1].nivel_risco = "Ruim"
    /\ req.poluentes[2].nivel_risco = "Péssimo"
    /\ req.poluentes[3].nivel_risco = "Moderado"
    /\ resp # SemResposta
    /\ resp.body.ret = <<"Péssimo", 300>>

\* the float of the no2 a body submits (0 when it has none)
ValorSubmetido(data) ==
    IF "no2" \in DOMAIN data THEN float(data.no2).val ELSE [m |-> 0, e |-> 0]

\* C5: every stored analysis record is consistent: its pollutant's level is
\* the classification of its value, its overall level is the most severe of
\* its pollutants and its aqi_geral the fixed AQI of that level; the record
\* a 201 stored holds the submitted no2 (0 when absent), no2 = 5 stores Bom
\* with 50 and no2 = 50 stores Ruim with 150.
C5_RegistrosConsistentes ==
    /\ \A i \in 1..Len(Dados) :
          LET e == Dados[i].entrada
          IN  /\ Len(e.poluentes) = 1
              /\ e.poluentes[1].nivel_risco = NivelEsperado(e.poluentes[1].valor)
              /\ e.nivel_risco = niveis_ordem[PiorPosicao(e.poluentes)]
              /\ e.aqi_geral = AqiFixo(PiorPosicao(e.poluentes))
    /\ (req.op = "nova_analise" /\ resp.status = 201) =>
          \A e \in Busca(Dados, resp.body.nova_regiao.id) :
              /\ e.poluentes[1].valor = ValorSubmetido(req.data)
              /\ ValorSubmetido(req.data) = [m |-> 5, e |-> 0] =>
                    (e.nivel_risco = "Bom" /\ e.aqi_geral = 50)
              /\ ValorSubmetido(req.data) = [m |-> 50, e |-> 0] =>
                    (e.nivel_risco = "Ruim" /\ e.aqi_geral = 150)

\* a request with no2 = "50" has just stored a second record
C5_Witness ==
    /\ req.op = "nova_analise"
    /\ resp.status = 201
    /\ "no2" \in DOMAIN req.data
    /\ req.data.no2 = Str(<<"5", "0">>)
    /\ Cardinality(Chaves(Dados)) = 2
    /\ \E e \in Busca(Dados, resp.body.nova_regiao.id) : e.aqi_geral = 150

\* what the claim says GET /api/qualidade_ar answers to the query args
ConsultaEsperada(args) ==
    IF "regiao_id" \notin DOMAIN args \/ args.regiao_id = <<>> THEN 400
    ELSE IF args.regiao_id \notin Chaves(Dados) THEN 404
    ELSE 200

\* C6: GET /api/qualidade_ar answers 400 without regiao_id, 404 when no
\* record is stored under it and else the record stored under it, changes
\* nothing, and what it returns for an id is the record the nova_analise
\* that answered 201 with that id stored: a stored record is never replaced.
C6_ConsultaDevolveOGravado ==
    [][ /\ req'.op = "qualidade_ar" =>
            /\ resp'.status = ConsultaEsperada(req'.args)
            /\ resp'.status = 200 =>
                  resp'.body \in Busca(Dados, req'.args.regiao_id)
            /\ UNCHANGED <<DADOS_DB, CONFIG, DADOS_FILE, CONFIG_FILE>>
        /\ \A k \in Chaves(Dados) :
              Busca(DADOS_DB'.dados_qualidade_ar, k) = Busca(Dados, k) ]_vars

\* C7: POST /api/automated_analysis answers 400 exactly when one of
\* openeo_url, client_id, client_secret of CONFIG is empty, whatever the
\* body; else 202 with a job_id, or 500; it leaves CONFIG, DADOS_DB and
\* both files unchanged.
C7_AnaliseAutomatica ==
    [][ req'.op = "automated_analysis" =>
          /\ resp'.status = 400 <=> (\E k \in CamposConfig : CONFIG[k].s = <<>>)
          /\ resp'.status # 400 =>
                \/ resp'.status = 202 /\ "job_id" \in DOMAIN resp'.body
                \/ resp'.status = 500
          /\ UNCHANGED <<DADOS_DB, CONFIG, DADOS_FILE, CONFIG_FILE>> ]_vars

\* 400 was answered with two of the three fields set, over a stored region
C7_Witness ==
    /\ req.op = "automated_analysis"
    /\ resp.status = 400
    /\ CONFIG.openeo_url.s # <<>>
    /\ CONFIG.client_id.s # <<>>
    /\ CONFIG.client_secret.s = <<>>
    /\ Len(Regioes) > 0

\* C8: POST /api/config sets each of the three fields to the body's value,
\* or to the empty string when the body omits it, whatever CONFIG held; an
\* automated_analysis that follows a POST omitting a field answers 400;
\* the POST leaves DADOS_DB unchanged and GET /api/config changes nothing.
C8_ConfigSobrescrita ==
    [][ /\ req'.op = "config_POST" =>
            /\ \A k \in CamposConfig :
                  CONFIG'[k] = IF k \in DOMAIN req'.data THEN req'.data[k]
                               ELSE Str(<<>>)
            /\ UNCHANGED <<DADOS_DB, DADOS_FILE>>
        /\ (req.op = "config_POST" /\ DOMAIN req.data # CamposConfig
              /\ req'.op = "automated_analysis") => resp'.status = 400
        /\ req'.op = "config_GET" =>
            /\ resp'.body = CONFIG
            /\ UNCHANGED <<DADOS_DB, CONFIG, DADOS_FILE, CONFIG_FILE>> ]_vars

\* a POST with openeo_url alone was served after the configuration had been
\* saved: the two omitted fields are empty, over a stored region
C8_Witness ==
    /\ req.op = "config_POST"
    /\ DOMAIN req.data = {"openeo_url"}
    /\ CONFIG = [openeo_url |-> Str(<<"a">>), client_id |-> Str(<<>>),
                 client_secret |-> Str(<<>>)]
    /\ Len(Regioes) > 0

NomePresente(data) ==
    /\ "nome_regiao" \in DOMAIN data
    /\ data.nome_regiao.t = "str"
    /\ data.nome_regiao.s # <<>>

Conversivel(data) == "no2" \notin DOMAIN data \/ float(data.no2).ok

\* C9: a nova_analise without nome_regiao or with an empty one answers 400;
\* one whose no2 is no number ends in the propagated error (ValueError for
\* a text, TypeError for null); a nova_analise that does not answer 201
\* leaves regioes, dados_qualidade_ar and the data file as they were.
C9_FalhaNaoAltera ==
    [][ req'.op = "nova_analise" =>
          /\ ~NomePresente(req'.data) => resp'.status = 400
          /\ (NomePresente(req'.data) /\ ~Conversivel(req'.data)) =>
                resp' \in {Excecao("ValueError"), Excecao("TypeError")}
          /\ (NomePresente(req'.data) /\ Conversivel(req'.data)) =>
                resp'.status = 201
          /\ resp'.status # 201 => UNCHANGED <<DADOS_DB, DADOS_FILE>> ]_vars

\* the ValueError was raised over a database and a file that hold a region
C9_Witness ==
    /\ req.op = "nova_analise"
    /\ resp = Excecao("ValueError")
    /\ Len(Regioes) = 1
    /\ DADOS_FILE = json_dump(DADOS_DB)

IsPrefix(p, s) == Len(p) <= Len(s) /\ SubSeq(s, 1, Len(p)) = p

\* the file holds the region and the record of thread t's request
ContemAnalise(arquivo, t) ==
    /\ \E i \in 1..Len(arquivo) :
          /\ arquivo[i].tok = "regiao"
          /\ arquivo[i].regiao.id = loc[t].regiao_id
    /\ \E i \in 1..Len(arquivo) :
          /\ arquivo[i].tok = "dado"
          /\ arquivo[i].chave = loc[t].regiao_id

\* C10: the writes of two overlapping nova_analise requests are not
\* serialized and the last write wins: once both have completed, DADOS_DB
\* holds both regions and records and the file begins with what one of the
\* two wrote, whole; in some interleaving (C10_AtualizacaoPerdida) that is
\* not the document holding both.
C10_UltimaEscritaVence ==
    (\A t \in Threads : pc[t] = "fim") =>
        /\ \A t \in Threads :
              /\ \E i \in 1..Len(Regioes) : Regioes[i].id = loc[t].regiao_id
              /\ loc[t].regiao_id \in Chaves(Dados)
        /\ \E t \in Threads : IsPrefix(loc[t].buf, DADOS_FILE)

\* both requests answered 201 for different regions and the file lacks the
\* region or the record of one of them
C10_AtualizacaoPerdida ==
    /\ \A t \in Threads : pc[t] = "fim" /\ loc[t].status = 201
    /\ loc[1].regiao_id # loc[2].regiao_id
    /\ \E t \in Threads : ~ContemAnalise(DADOS_FILE, t)

====
